---- MODULE Spec2Model ----
(***************************************************************************)
(* A model of the content-management GraphQL back end (query and mutation  *)
(* resolvers over a Prisma store) and of the admin client's ArticleService *)
(* facade (apollo-angular + rxjs).                                         *)
(*                                                                         *)
(* Conventions                                                             *)
(*  - a JavaScript string is a sequence of one-character strings, so that  *)
(*    substring containment is computed;                                   *)
(*  - an optional value (an argument that may be absent, a nullable        *)
(*    result) is a sequence of length 0 or 1;                              *)
(*  - a resolver is an operator from (store, args, context) to an outcome  *)
(*    [error, value]: error is "" when the resolver returns, else the      *)
(*    message of the Error it throws; value is the sequence of returned    *)
(*    entities.                                                            *)
(***************************************************************************)
EXTENDS Integers, Sequences, FiniteSets

VARIABLES
  users,        \* the store's User nodes, in creation order
  articles,     \* the store's Article nodes, in creation order
  comments,     \* the store's Comment nodes, in creation order
  nextId,       \* [user, article, comment]: the next node id of each type
  signupPc,     \* per in-flight signup request: "idle" or "hashing"
  signupArgs,   \* per in-flight signup request: its arguments
  resp,         \* the response to the request that completed last
  call,         \* the admin client's facade call (one at a time)
  watch,        \* per watched query: its fetch, and the data last delivered
  view          \* per watched query: what its subscriber was last notified

serverVars == <<users, articles, comments, nextId, signupPc, signupArgs, resp>>
clientVars == <<call, watch, view>>
vars == <<users, articles, comments, nextId, signupPc, signupArgs, resp,
          call, watch, view>>

(***************************************************************************)
(* Bounds of the model.                                                    *)
(***************************************************************************)
MaxArticles == 2
MaxComments == 1
NumRequests == 2
FacadeMaxArticles == 1

Requests == 1..NumRequests

(***************************************************************************)
(* Strings.                                                                *)
(***************************************************************************)
Str_a == <<"a">>
Str_b == <<"b">>
Str_ab == <<"a", "b">>
Str_empty == <<>>

\* String.prototype "contains" of the store's *_contains filters.
Contains(s, sub) ==
  \E i \in 0..(Len(s) - Len(sub)) : SubSeq(s, i + 1, i + Len(sub)) = sub

None == <<>>
Some(v) == <<v>>

(***************************************************************************)
(* utils: APP_SECRET, ADMIN_USER, getUserId; jsonwebtoken.                 *)
(***************************************************************************)
APP_SECRET == "app-secret"
ADMIN_USER == "admin"

\* jwt.sign({ userId }, APP_SECRET)
jwt_sign(userId, secret) == [userId |-> userId, sig |-> secret]

\* jwt.verify(token, secret): throws unless the signature is the secret's.
jwt_verify_ok(token, secret) == token.sig = secret

\* A request context: the Authorization header, absent or carrying a token.
Anonymous == [auth |-> None]
Bearer(token) == [auth |-> Some(token)]

\* getUserId(context): [error, userId].
getUserId(context) ==
  IF context.auth = None
    THEN [error |-> "Not authenticated", userId |-> 0]
  ELSE IF ~jwt_verify_ok(context.auth[1], APP_SECRET)
    THEN [error |-> "Not authenticated", userId |-> 0]
  ELSE [error |-> "", userId |-> context.auth[1].userId]

(***************************************************************************)
(* The store (Prisma client).                                              *)
(***************************************************************************)
\* prisma.user({ id }) / prisma.user({ email }): the node or null.
prisma_user_by_id(us, id) == SelectSeq(us, LAMBDA u : u.id = id)
prisma_user_by_email(us, email) == SelectSeq(us, LAMBDA u : u.email = email)

\* prisma.$exists.user({ name })
prisma_exists_user(us, name) == \E i \in 1..Len(us) : us[i].name = name

\* prisma.article({ id }): the node or null.
prisma_article(as, id) == SelectSeq(as, LAMBDA a : a.id = id)

\* One condition of a where clause's OR list: { <field>_contains: <text> }.
MatchesCond(a, cond) ==
  IF cond.field = "title" THEN Contains(a.title, cond.contains)
  ELSE Contains(a.summary, cond.contains)

\* An article satisfies a where clause: where.draft and where.OR are optional.
Matches(a, where) ==
  /\ where.draft = None \/ a.draft = where.draft[1]
  /\ where.OR = None
       \/ \E i \in 1..Len(where.OR[1]) : MatchesCond(a, where.OR[1][i])

\* skip, then first, of a list; each optional.
Paginate(list, skip, first) ==
  LET n == IF skip = None THEN 0 ELSE skip[1]
      rest == IF n >= Len(list) THEN <<>> ELSE SubSeq(list, n + 1, Len(list))
  IN IF first = None \/ first[1] >= Len(rest) THEN rest
     ELSE SubSeq(rest, 1, first[1])

\* prisma.articles({ where, skip, first })
prisma_articles(as, where, skip, first) ==
  Paginate(SelectSeq(as, LAMBDA a : Matches(a, where)), skip, first)

NoWhere == [draft |-> None, OR |-> None]

(***************************************************************************)
(* bcrypt.                                                                 *)
(***************************************************************************)
BcryptRounds == 10

bcrypt_hash(password, rounds) == [rounds |-> rounds, digestOf |-> password]
bcrypt_compare(password, pwHash) == pwHash.digestOf = password

(***************************************************************************)
(* utils: assertAdminUser.                                                 *)
(***************************************************************************)
\* assertAdminUser(context): the message of the Error it throws, or "".
assertAdminUser(us, context) ==
  LET who == getUserId(context)
      user == prisma_user_by_id(us, who.userId)
  IN IF who.error # "" THEN who.error
     ELSE IF user = None THEN "TypeError"
     ELSE IF user[1].name # ADMIN_USER THEN "Not authorized"
     ELSE ""

(***************************************************************************)
(* Query resolvers.                                                        *)
(***************************************************************************)
\* JavaScript truthiness of an optional string: present and not empty.
Truthy(optStr) == optStr # None /\ optStr[1] # Str_empty

\* A faulty variant: the where clause without draft: false.
publishedArticlesWhere_AnyDraft(args) ==
  [draft |-> None,
   OR |-> IF Truthy(args.filter)
            THEN Some(<<[field |-> "title", contains |-> args.filter[1]],
                        [field |-> "summary", contains |-> args.filter[1]]>>)
            ELSE None]

\* The where clause publishedArticles builds.
publishedArticlesWhere(args) ==
  [draft |-> Some(FALSE),
   OR |-> IF Truthy(args.filter)
            THEN Some(<<[field |-> "title", contains |-> args.filter[1]],
                        [field |-> "summary", contains |-> args.filter[1]]>>)
            ELSE None]

publishedArticles(as, args) ==
  [error |-> "", guard |-> FALSE,
   value |-> prisma_articles(as, publishedArticlesWhere(args),
                             args.skip, args.first)]

allArticles(as, args) ==
  [error |-> "", guard |-> FALSE,
   value |-> prisma_articles(as, NoWhere, args.skip, args.first)]

\* A faulty variant: article without the draft check.
article_Unguarded(as, us, args, context) ==
  LET found == prisma_article(as, args.id)
  IN IF found = None
       THEN [error |-> "TypeError", guard |-> FALSE, value |-> <<>>]
       ELSE [error |-> "", guard |-> FALSE, value |-> found]

\* article: guard tells whether assertAdminUser was called.
article(as, us, args, context) ==
  LET found == prisma_article(as, args.id)
  IN IF found = None
       THEN [error |-> "TypeError", guard |-> FALSE, value |-> <<>>]
     ELSE IF found[1].draft
       THEN IF assertAdminUser(us, context) # ""
              THEN [error |-> assertAdminUser(us, context), guard |-> TRUE,
                    value |-> <<>>]
              ELSE [error |-> "", guard |-> TRUE, value |-> found]
     ELSE [error |-> "", guard |-> FALSE, value |-> found]

(***************************************************************************)
(* Mutation resolvers.  A mutation's outcome also carries the node it      *)
(* asks the store to create (created), empty when it creates none.         *)
(***************************************************************************)
\* A faulty variant: signup without the existence check.
signupExists_Never(us, args) == FALSE

\* signup, up to its first await: does a user of that name exist?
signupExists(us, args) == prisma_exists_user(us, args.name)

\* prisma.createUser: email is a unique field of User (login looks a user up
\* by it), so the store rejects a second node with the same email.
prisma_createUser(us, id, data) ==
  IF prisma_user_by_email(us, data.email) # None
    THEN [error |-> "A unique constraint would be violated on User",
          created |-> <<>>]
    ELSE [error |-> "",
          created |-> <<[id |-> id, name |-> data.name, email |-> data.email,
                         pwHash |-> data.pwHash]>>]

\* signup, after the existence check passed.
signupCreate(us, id, args) ==
  LET pwHash == bcrypt_hash(args.password, BcryptRounds)
      made == prisma_createUser(us, id, [name |-> args.name,
                                         email |-> args.email,
                                         pwHash |-> pwHash])
  IN IF made.error # ""
       THEN [error |-> made.error, guard |-> FALSE, value |-> <<>>,
             created |-> <<>>]
       ELSE [error |-> "", guard |-> FALSE,
             value |-> <<[token |-> jwt_sign(made.created[1].id, APP_SECRET),
                          user |-> made.created[1]]>>,
             created |-> made.created]

\* A faulty variant: login without the password comparison.
login_AnyPassword(us, args) ==
  LET user == prisma_user_by_email(us, args.email)
  IN IF user = None
       THEN [error |-> "No such user found", guard |-> FALSE, value |-> <<>>]
       ELSE [error |-> "", guard |-> FALSE,
             value |-> <<[token |-> jwt_sign(user[1].id, APP_SECRET),
                          user |-> user[1]]>>]

login(us, args) ==
  LET user == prisma_user_by_email(us, args.email)
  IN IF user = None
       THEN [error |-> "No such user found", guard |-> FALSE, value |-> <<>>]
     ELSE IF ~bcrypt_compare(args.password, user[1].pwHash)
       THEN [error |-> "Invalid password", guard |-> FALSE, value |-> <<>>]
     ELSE [error |-> "", guard |-> FALSE,
           value |-> <<[token |-> jwt_sign(user[1].id, APP_SECRET),
                        user |-> user[1]]>>]

\* The server default of Article.draft.
DraftDefault == TRUE

\* A faulty variant: the inline check lets every authenticated user through.
inlineAdminCheck_AnyUser(us, context) ==
  LET who == getUserId(context)
  IN IF who.error # "" THEN who.error ELSE ""

\* postArticle / postComment: the inline admin check.
inlineAdminCheck(us, context) ==
  LET who == getUserId(context)
      user == prisma_user_by_id(us, who.userId)
  IN IF who.error # "" THEN who.error
     ELSE IF user = None THEN "TypeError"
     ELSE IF user[1].name # ADMIN_USER THEN "Not authorized"
     ELSE ""

postArticle(us, id, args, context) ==
  IF inlineAdminCheck(us, context) # ""
    THEN [error |-> inlineAdminCheck(us, context), guard |-> TRUE,
          value |-> <<>>, created |-> <<>>]
    ELSE LET node == [id |-> id, title |-> args.title,
                      summary |-> args.summary, content |-> args.content,
                      tags |-> args.tags, draft |-> DraftDefault]
         IN [error |-> "", guard |-> TRUE, value |-> <<node>>,
             created |-> <<node>>]

\* prisma.createComment with user and article connected by id: the store
\* rejects the create when a node to connect does not exist.
prisma_createComment(us, as, id, data) ==
  IF prisma_user_by_id(us, data.userId) = None
       \/ prisma_article(as, data.articleId) = None
    THEN [error |-> "No Node for the model found", created |-> <<>>]
    ELSE [error |-> "",
          created |-> <<[id |-> id, content |-> data.content,
                         user |-> data.userId, article |-> data.articleId]>>]

postComment(us, as, id, args, context) ==
  IF inlineAdminCheck(us, context) # ""
    THEN [error |-> inlineAdminCheck(us, context), guard |-> TRUE,
          value |-> <<>>, created |-> <<>>]
    ELSE LET made == prisma_createComment(us, as, id,
                       [content |-> args.content,
                        userId |-> getUserId(context).userId,
                        articleId |-> args.articleId])
         IN [error |-> made.error, guard |-> TRUE, value |-> made.created,
             created |-> made.created]

\* publishArticle(id, publish): admin only; sets draft to ~publish.
publishArticle(us, as, args, context) ==
  IF assertAdminUser(us, context) # ""
    THEN [error |-> assertAdminUser(us, context), guard |-> TRUE,
          value |-> <<>>]
  ELSE IF prisma_article(as, args.id) = None
    THEN [error |-> "No Node for the model found", guard |-> TRUE,
          value |-> <<>>]
  ELSE [error |-> "", guard |-> TRUE,
        value |-> <<[prisma_article(as, args.id)[1]
                       EXCEPT !.draft = ~args.publish]>>]

\* The store after an update of one article node.
ReplaceArticle(as, node) ==
  [i \in 1..Len(as) |-> IF as[i].id = node.id THEN node ELSE as[i]]

(***************************************************************************)
(* Inputs of the requests.                                                 *)
(***************************************************************************)
Names == {"admin", "bob"}
Emails == {"e1", "e2"}
Passwords == {"p1", "p2"}

\* Every signup input, and the two the content specification signs up.
SignupInputs == [name : Names, email : Emails, password : Passwords]
ContentSignupInputs ==
  {[name |-> "admin", email |-> "e1", password |-> "p1"],
   [name |-> "bob", email |-> "e2", password |-> "p1"]}
LoginInputs == [email : Emails, password : Passwords]

\* Three articles: "a" is in the title only, in the summary only, in neither.
NewArticle(title, summary) ==
  [title |-> title, summary |-> summary, content |-> <<"c">>, tags |-> <<>>]
ArticleInputs ==
  {NewArticle(Str_ab, Str_b), NewArticle(Str_b, Str_a),
   NewArticle(Str_b, Str_b)}
Filters == {None, Some(Str_empty), Some(Str_a), Some(Str_ab)}
Skips == {None, Some(1)}
Firsts == {None, Some(1)}
ArticleIds == 1..(MaxArticles + 1)

\* The contexts a request can carry: no token, a token the server issued (one
\* per existing user: tokens do not expire), or a token it did not sign.
Contexts(us) ==
  {Anonymous, Bearer(jwt_sign(1, "forged"))}
    \cup {Bearer(jwt_sign(us[i].id, APP_SECRET)) : i \in 1..Len(us)}

\* What the admin client sends: no token, or a token the server issued.
ClientContexts(us) ==
  {Anonymous}
    \cup {Bearer(jwt_sign(us[i].id, APP_SECRET)) : i \in 1..Len(us)}

Response(op, context, args, out) ==
  [op |-> op, context |-> context, args |-> args, error |-> out.error,
   guard |-> out.guard, value |-> out.value]

(***************************************************************************)
(* Initial state: an empty store, no request in flight.                    *)
(***************************************************************************)
ServerInit ==
  /\ users = <<>>
  /\ articles = <<>>
  /\ comments = <<>>
  /\ nextId = [user |-> 1, article |-> 1, comment |-> 1]
  /\ signupPc = [r \in Requests |-> "idle"]
  /\ signupArgs = [r \in Requests |-> [name |-> "", email |-> "",
                                       password |-> ""]]
  /\ resp = [op |-> "none", context |-> Anonymous, args |-> [none |-> TRUE],
             error |-> "", guard |-> FALSE, value |-> <<>>]

(***************************************************************************)
(* Server actions: one per resolver; signup is two steps, one up to its    *)
(* first await (the existence check), one from there (hash and create).    *)
(***************************************************************************)
SignupCheck(r, args) ==
  /\ signupPc[r] = "idle"
  /\ IF signupExists(users, args)
       THEN /\ resp' = Response("signup", Anonymous, args,
                         [error |-> "User already exists", guard |-> FALSE,
                          value |-> <<>>])
            /\ UNCHANGED <<signupPc, signupArgs>>
       ELSE /\ signupPc' = [signupPc EXCEPT ![r] = "hashing"]
            /\ signupArgs' = [signupArgs EXCEPT ![r] = args]
            /\ UNCHANGED resp
  /\ UNCHANGED <<users, articles, comments, nextId>>
  /\ UNCHANGED clientVars

SignupCreate(r) ==
  /\ signupPc[r] = "hashing"
  /\ LET out == signupCreate(users, nextId.user, signupArgs[r])
     IN /\ users' = users \o out.created
        /\ nextId' = [nextId EXCEPT !.user = @ + Len(out.created)]
        /\ resp' = Response("signup", Anonymous, signupArgs[r], out)
  /\ signupPc' = [signupPc EXCEPT ![r] = "idle"]
  /\ signupArgs' = [signupArgs EXCEPT ![r] = [name |-> "", email |-> "",
                                              password |-> ""]]
  /\ UNCHANGED <<articles, comments>>
  /\ UNCHANGED clientVars

Login(args) ==
  /\ resp' = Response("login", Anonymous, args, login(users, args))
  /\ UNCHANGED <<users, articles, comments, nextId, signupPc, signupArgs>>
  /\ UNCHANGED clientVars

PostArticle(context, args) ==
  /\ nextId.article <= MaxArticles
  /\ LET out == postArticle(users, nextId.article, args, context)
     IN /\ articles' = articles \o out.created
        /\ nextId' = [nextId EXCEPT !.article = @ + Len(out.created)]
        /\ resp' = Response("postArticle", context, args, out)
  /\ UNCHANGED <<users, comments, signupPc, signupArgs>>
  /\ UNCHANGED clientVars

PostComment(context, args) ==
  /\ nextId.comment <= MaxComments
  /\ LET out == postComment(users, articles, nextId.comment, args, context)
     IN /\ comments' = comments \o out.created
        /\ nextId' = [nextId EXCEPT !.comment = @ + Len(out.created)]
        /\ resp' = Response("postComment", context, args, out)
  /\ UNCHANGED <<users, articles, signupPc, signupArgs>>
  /\ UNCHANGED clientVars

PublishArticle(context, args) ==
  /\ LET out == publishArticle(users, articles, args, context)
     IN /\ articles' = IF out.error = ""
                         THEN ReplaceArticle(articles, out.value[1])
                         ELSE articles
        /\ resp' = Response("publishArticle", context, args, out)
  /\ UNCHANGED <<users, comments, nextId, signupPc, signupArgs>>
  /\ UNCHANGED clientVars

PublishedArticles(context, args) ==
  /\ resp' = Response("publishedArticles", context, args,
                      publishedArticles(articles, args))
  /\ UNCHANGED <<users, articles, comments, nextId, signupPc, signupArgs>>
  /\ UNCHANGED clientVars

AllArticles(context, args) ==
  /\ resp' = Response("allArticles", context, args,
                      allArticles(articles, args))
  /\ UNCHANGED <<users, articles, comments, nextId, signupPc, signupArgs>>
  /\ UNCHANGED clientVars

Article(context, args) ==
  /\ resp' = Response("article", context, args,
                      article(articles, users, args, context))
  /\ UNCHANGED <<users, articles, comments, nextId, signupPc, signupArgs>>
  /\ UNCHANGED clientVars

CommentInputs == [content : {<<"h">>}, articleId : ArticleIds]

(***************************************************************************)
(* Resolvers the admin client calls besides the ones above.                *)
(***************************************************************************)
\* comments(skip, first)
commentsQuery(cs, args) ==
  [error |-> "", guard |-> FALSE,
   value |-> Paginate(cs, args.skip, args.first)]

\* updateArticle(id, title, summary, content, tags): no admin check.
updateArticle(as, args) ==
  IF prisma_article(as, args.id) = None
    THEN [error |-> "No Node for the model found", guard |-> FALSE,
          value |-> <<>>]
    ELSE [error |-> "", guard |-> FALSE,
          value |-> <<[prisma_article(as, args.id)[1]
                         EXCEPT !.title = args.article.title,
                                !.summary = args.article.summary,
                                !.content = args.article.content,
                                !.tags = args.article.tags]>>]

\* deleteArticle(id): admin only; the article's comments go with it.
deleteArticle(us, as, args, context) ==
  IF assertAdminUser(us, context) # ""
    THEN [error |-> assertAdminUser(us, context), guard |-> TRUE,
          value |-> <<>>]
  ELSE IF prisma_article(as, args.id) = None
    THEN [error |-> "No Node for the model found", guard |-> TRUE,
          value |-> <<>>]
  ELSE [error |-> "", guard |-> TRUE, value |-> prisma_article(as, args.id)]

\* deleteComment(id): admin only.
deleteComment(us, cs, args, context) ==
  IF assertAdminUser(us, context) # ""
    THEN [error |-> assertAdminUser(us, context), guard |-> TRUE,
          value |-> <<>>]
  ELSE IF SelectSeq(cs, LAMBDA c : c.id = args.id) = <<>>
    THEN [error |-> "No Node for the model found", guard |-> TRUE,
          value |-> <<>>]
  ELSE [error |-> "", guard |-> TRUE,
        value |-> SelectSeq(cs, LAMBDA c : c.id = args.id)]

(***************************************************************************)
(* JavaScript values in the facade's callbacks: an object is a record, an  *)
(* array is an object with an items field, undefined is JSUndefined.       *)
(***************************************************************************)
JSUndefined == [undefined |-> TRUE]
JSIsUndefined(v) == "undefined" \in DOMAIN v

\* v.f of a defined v: undefined when v has no property f.
JSGet(v, f) == IF f \in DOMAIN v THEN v[f] ELSE JSUndefined

\* v.f.g: reading a property of undefined throws a TypeError.
JSGet2(v, f, g) ==
  IF JSIsUndefined(v) \/ JSIsUndefined(JSGet(v, f))
    THEN [thrown |-> TRUE, val |-> JSUndefined]
    ELSE [thrown |-> FALSE, val |-> JSGet(JSGet(v, f), g)]

JSArray(list) == [items |-> list]

\* Notifications of an rxjs stream.
NextOf(v) == [kind |-> "next", value |-> v, error |-> ""]
ErrorOf(e) == [kind |-> "error", value |-> JSUndefined, error |-> e]

(***************************************************************************)
(* ArticleService: each method is an Apollo operation piped through        *)
(* map(project) and tap(next, error).                                      *)
(***************************************************************************)
MutationOps == {"postArticle", "updateArticle", "publishArticle",
                "deleteArticle", "deleteComment"}
ListOps == {"getArticles", "getComments"}

\* The field of result.data each method's map projects.
ResponseField(op) ==
  CASE op = "getArticle" -> "article"
    [] op = "getArticles" -> "allArticles"
    [] op = "getComments" -> "comments"
    [] OTHER -> op

\* What Apollo hands the pipe: the result { data: { <field>: payload } } of
\* a resolver that returned, the error of one that threw.
ApolloResult(op, out) ==
  IF out.error # "" THEN ErrorOf(out.error)
  ELSE NextOf([data |-> [f \in {ResponseField(op)} |->
                           IF op \in ListOps THEN JSArray(out.value)
                           ELSE out.value[1]]])

\* map(result => result.data.<field>)
pipe_map(op, n) ==
  IF n.kind # "next" THEN n
  ELSE IF JSGet2(n.value, "data", ResponseField(op)).thrown
    THEN ErrorOf("TypeError")
  ELSE NextOf(JSGet2(n.value, "data", ResponseField(op)).val)

Message(text, id) == [text |-> text, id |-> id]

\* The id a template interpolates: the id of the call's variables.
VariablesId(op, variables) ==
  IF op \in {"getArticles", "getComments"} THEN <<>> ELSE <<variables.id>>

SuccessText(op, variables) ==
  CASE op = "getArticle" -> "Fetched article"
    [] op = "getArticles" -> "Fetched articles"
    [] op = "getComments" -> "Fetched comments"
    [] op = "updateArticle" -> "Saved article"
    [] op = "publishArticle" ->
         IF variables.publish THEN "Published article"
         ELSE "Unpublished article"
    [] op = "deleteArticle" -> "Deleted article"
    [] op = "deleteComment" -> "Deleted comment"
    [] OTHER -> "Created article"

FailureText(op, variables) ==
  CASE op = "getArticle" -> "Failed to fetch article"
    [] op = "getArticles" -> "Failed to fetch articles"
    [] op = "getComments" -> "Failed to fetch comments"
    [] op = "updateArticle" -> "Failed to save article"
    [] op = "publishArticle" ->
         IF variables.publish THEN "Failed to Publish article"
         ELSE "Failed to Unpublish article"
    [] op = "deleteArticle" -> "Failed to delete article"
    [] op = "deleteComment" -> "Failed to delete comment"
    [] OTHER -> "Failed to create article"

\* postArticle's next callback: const article = result.data.postArticle,
\* evaluated on the value map passed on; then the log entry.
tapNext_postArticle(n) ==
  LET read == JSGet2(n.value, "data", "postArticle")
  IN IF read.thrown
       THEN [out |-> ErrorOf("TypeError"), logged |-> <<>>]
       ELSE [out |-> n,
             logged |-> <<Message("Created article",
                                  IF JSIsUndefined(read.val)
                                       \/ JSIsUndefined(JSGet(read.val, "id"))
                                    THEN <<>>
                                    ELSE <<JSGet(read.val, "id")>>)>>]

\* tap(next, error): a callback that throws turns the notification into an
\* error; otherwise the notification passes unchanged.
pipe_tap(op, variables, n) ==
  IF n.kind = "next"
    THEN IF op = "postArticle" THEN tapNext_postArticle(n)
         ELSE [out |-> n,
               logged |-> <<Message(SuccessText(op, variables),
                                    VariablesId(op, variables))>>]
    ELSE [out |-> n,
          logged |-> <<Message(FailureText(op, variables),
                               IF op = "postArticle" THEN <<>>
                               ELSE VariablesId(op, variables))>>]

\* What a method's subscriber and the logger get for one notification.
facade(op, variables, n) == pipe_tap(op, variables, pipe_map(op, n))

\* A faulty variant: deleteComment refetches the articles list.
refetchQueries_Pasted(op) ==
  CASE op = "postArticle" -> <<"getArticles">>
    [] op = "deleteArticle" -> <<"getArticles">>
    [] op = "deleteComment" -> <<"getArticles">>
    [] OTHER -> <<>>

\* The refetchQueries each mutation declares.
refetchQueries(op) ==
  CASE op = "postArticle" -> <<"getArticles">>
    [] op = "deleteArticle" -> <<"getArticles">>
    [] op = "deleteComment" -> <<"getComments">>
    [] OTHER -> <<>>

(***************************************************************************)
(* Inputs of the facade calls.                                             *)
(***************************************************************************)
FacadeSignupInputs == {[name |-> "admin", email |-> "e1", password |-> "p1"]}
FacadeIds == 1..(FacadeMaxArticles + 1)
NoArticle == NewArticle(Str_empty, Str_empty)
Variables(id, input, publish) ==
  [id |-> id, article |-> input, publish |-> publish]
NoVariables == Variables(0, NoArticle, FALSE)

CallInputs(op) ==
  CASE op = "postArticle" -> {Variables(0, NewArticle(Str_ab, Str_b), FALSE)}
    [] op = "updateArticle" ->
         {Variables(id, NewArticle(Str_b, Str_b), FALSE) : id \in FacadeIds}
    [] op = "publishArticle" ->
         {Variables(id, NoArticle, b) : id \in FacadeIds, b \in BOOLEAN}
    [] OTHER -> {Variables(id, NoArticle, FALSE) : id \in FacadeIds}

NoOutcome == [error |-> "", guard |-> FALSE, value |-> <<>>]

IdleCall ==
  [phase |-> "done", op |-> "none", variables |-> NoVariables,
   context |-> Anonymous, outcome |-> NoOutcome, notified |-> <<>>,
   logged |-> <<>>, refetch |-> "", data |-> <<>>]

ClientInit ==
  /\ call = IdleCall
  /\ watch = [q \in ListOps |-> [phase |-> "off", data |-> <<>>]]
  /\ view = [q \in ListOps |-> <<>>]

Init == ServerInit /\ ClientInit

(***************************************************************************)
(* Facade actions.  A call of getArticle or of a mutation goes             *)
(*   done -> sent -> replied -> [refetchSent -> refetchReplied ->] done;   *)
(* a subscription to getArticles or getComments goes                       *)
(*   off -> sent -> replied -> live.                                       *)
(***************************************************************************)
\* A component subscribes to the stream of getArticle or of a mutation.
Call(op, variables) ==
  /\ call.phase = "done"
  /\ op = "postArticle" => nextId.article <= FacadeMaxArticles
  /\ call' = [IdleCall EXCEPT !.phase = "sent", !.op = op,
                              !.variables = variables]
  /\ UNCHANGED <<serverVars, watch, view>>

\* The resolver of a facade operation, and the store it leaves.
Resolve(op, variables, context) ==
  CASE op = "getArticle" ->
         article(articles, users, [id |-> variables.id], context)
    [] op = "postArticle" ->
         postArticle(users, nextId.article, variables.article, context)
    [] op = "updateArticle" -> updateArticle(articles, variables)
    [] op = "publishArticle" ->
         publishArticle(users, articles, variables, context)
    [] op = "deleteArticle" ->
         deleteArticle(users, articles, variables, context)
    [] OTHER -> deleteComment(users, comments, variables, context)

\* The server runs the resolver of the call in flight.
ServerHandle(context) ==
  /\ call.phase = "sent"
  /\ LET out == Resolve(call.op, call.variables, context)
         ok == out.error = ""
     IN /\ call' = [call EXCEPT !.phase = "replied", !.context = context,
                                !.outcome = [error |-> out.error,
                                             guard |-> out.guard,
                                             value |-> out.value]]
        /\ articles' =
             IF ~ok THEN articles
             ELSE IF call.op = "postArticle" THEN articles \o out.value
             ELSE IF call.op \in {"updateArticle", "publishArticle"}
               THEN ReplaceArticle(articles, out.value[1])
             ELSE IF call.op = "deleteArticle"
               THEN SelectSeq(articles, LAMBDA a : a.id # call.variables.id)
             ELSE articles
        /\ comments' =
             IF ~ok THEN comments
             ELSE IF call.op = "deleteArticle"
               THEN SelectSeq(comments,
                              LAMBDA c : c.article # call.variables.id)
             ELSE IF call.op = "deleteComment"
               THEN SelectSeq(comments, LAMBDA c : c.id # call.variables.id)
             ELSE comments
        /\ nextId' = IF ok /\ call.op = "postArticle"
                       THEN [nextId EXCEPT !.article = @ + 1]
                       ELSE nextId
  /\ UNCHANGED <<users, signupPc, signupArgs, resp, watch, view>>

\* Apollo delivers the response: the pipe notifies the subscriber and logs,
\* and a mutation that succeeded starts the refetch it declared.
ClientReceive ==
  /\ call.phase = "replied"
  /\ LET got == facade(call.op, call.variables,
                       ApolloResult(call.op, call.outcome))
         again == IF call.op \in MutationOps /\ call.outcome.error = ""
                    THEN refetchQueries(call.op) ELSE <<>>
     IN call' = [call EXCEPT !.notified = <<got.out>>,
                             !.logged = got.logged,
                             !.phase = IF again = <<>> THEN "done"
                                       ELSE "refetchSent",
                             !.refetch = IF again = <<>> THEN ""
                                         ELSE again[1]]
  /\ UNCHANGED <<serverVars, watch, view>>

\* The list resolver behind a watched query.
ResolveList(q) ==
  IF q = "getArticles"
    THEN allArticles(articles, [skip |-> None, first |-> None])
    ELSE commentsQuery(comments, [skip |-> None, first |-> None])

\* The ids of a list of nodes.
Ids(list) == [i \in 1..Len(list) |-> list[i].id]

\* The server answers the refetch.
ServerRefetch ==
  /\ call.phase = "refetchSent"
  /\ call' = [call EXCEPT !.phase = "refetchReplied",
                          !.data = Ids(ResolveList(call.refetch).value)]
  /\ UNCHANGED <<serverVars, watch, view>>

\* One notification of a watched query's stream.
Notify(q, data) ==
  facade(q, NoVariables,
         ApolloResult(q, [error |-> "", guard |-> FALSE, value |-> data]))

\* Apollo writes the refetched list to its cache; a live watcher of the
\* query is notified again.
ClientRefetchReceive ==
  /\ call.phase = "refetchReplied"
  /\ call' = [call EXCEPT !.phase = "done"]
  /\ IF watch[call.refetch].phase = "live"
       THEN /\ watch' = [watch EXCEPT ![call.refetch].data = call.data]
            /\ view' = [view EXCEPT
                          ![call.refetch] =
                             <<Notify(call.refetch, call.data).out>>]
       ELSE UNCHANGED <<watch, view>>
  /\ UNCHANGED serverVars

\* A component subscribes to getArticles() or getComments().
Subscribe(q) ==
  /\ watch[q].phase = "off"
  /\ watch' = [watch EXCEPT ![q].phase = "sent"]
  /\ UNCHANGED <<serverVars, call, view>>

\* The server answers the watched query's first fetch.
ServerQuery(q) ==
  /\ watch[q].phase = "sent"
  /\ watch' = [watch EXCEPT ![q] = [phase |-> "replied",
                                    data |-> Ids(ResolveList(q).value)]]
  /\ UNCHANGED <<serverVars, call, view>>

\* The first result reaches the subscriber; the stream stays live.
ClientQueryReceive(q) ==
  /\ watch[q].phase = "replied"
  /\ watch' = [watch EXCEPT ![q].phase = "live"]
  /\ view' = [view EXCEPT ![q] = <<Notify(q, watch[q].data).out>>]
  /\ UNCHANGED <<serverVars, call>>

\* The content specifications sign users up one request at a time.
QueryNext ==
  \/ \E args \in ContentSignupInputs : SignupCheck(1, args)
  \/ SignupCreate(1)
  \/ \E c \in Contexts(users), args \in ArticleInputs : PostArticle(c, args)
  \/ \E c \in Contexts(users), id \in ArticleIds, publish \in BOOLEAN :
       PublishArticle(c, [id |-> id, publish |-> publish])
  \/ \E c \in Contexts(users), f \in Filters, s \in Skips, n \in Firsts :
       PublishedArticles(c, [filter |-> f, skip |-> s, first |-> n])
  \/ \E c \in Contexts(users), s \in Skips, n \in Firsts :
       AllArticles(c, [skip |-> s, first |-> n])
  \/ \E c \in Contexts(users), id \in ArticleIds : Article(c, [id |-> id])

MutationNext ==
  \/ \E args \in ContentSignupInputs : SignupCheck(1, args)
  \/ SignupCreate(1)
  \/ \E c \in Contexts(users), args \in ArticleInputs : PostArticle(c, args)
  \/ \E c \in Contexts(users), args \in CommentInputs : PostComment(c, args)

AuthNext ==
  \/ \E r \in Requests, args \in SignupInputs : SignupCheck(r, args)
  \/ \E r \in Requests : SignupCreate(r)
  \/ \E args \in LoginInputs : Login(args)

\* Comments reach the store from the public site, posted by the admin.
FacadeNext ==
  \/ \E args \in FacadeSignupInputs : SignupCheck(1, args)
  \/ SignupCreate(1)
  \/ \E c \in ClientContexts(users) \ {Anonymous}, id \in FacadeIds :
       PostComment(c, [content |-> <<"h">>, articleId |-> id])
  \/ \E op \in MutationOps \cup {"getArticle"} :
       \E v \in CallInputs(op) : Call(op, v)
  \/ \E c \in ClientContexts(users) : ServerHandle(c)
  \/ ClientReceive
  \/ ServerRefetch
  \/ ClientRefetchReceive
  \/ \E q \in ListOps : Subscribe(q)
  \/ \E q \in ListOps : ServerQuery(q)
  \/ \E q \in ListOps : ClientQueryReceive(q)

\* The facade with the calls the refetch claims are about: the three
\* mutations that declare refetchQueries and one that declares none, and a
\* public site that posts a comment when the store holds none.
RefetchOps == {"postArticle", "deleteArticle", "deleteComment",
               "updateArticle"}

RefetchNext ==
  \/ \E args \in FacadeSignupInputs : SignupCheck(1, args)
  \/ SignupCreate(1)
  \/ \E c \in ClientContexts(users) \ {Anonymous}, id \in FacadeIds :
       /\ comments = <<>>
       /\ PostComment(c, [content |-> <<"h">>, articleId |-> id])
  \/ \E op \in RefetchOps : \E v \in CallInputs(op) : Call(op, v)
  \/ \E c \in ClientContexts(users) : ServerHandle(c)
  \/ ClientReceive
  \/ ServerRefetch
  \/ ClientRefetchReceive
  \/ \E q \in ListOps : Subscribe(q)
  \/ \E q \in ListOps : ServerQuery(q)
  \/ \E q \in ListOps : ClientQueryReceive(q)

QuerySpec == Init /\ [][QueryNext]_vars
MutationSpec == Init /\ [][MutationNext]_vars
AuthSpec == Init /\ [][AuthNext]_vars
FacadeSpec == Init /\ [][FacadeNext]_vars

\* The network delivers and the server and the client's event loop run: a
\* refetch that was started is answered, and its answer is processed.
RefetchFairSpec ==
  /\ Init /\ [][RefetchNext]_vars
  /\ WF_vars(ServerRefetch) /\ WF_vars(ClientRefetchReceive)

(***************************************************************************)
(* Vocabulary of the claims.                                               *)
(***************************************************************************)
\* The error kind of a thrown message; a TypeError is none of the kinds.
ErrorKind(message) ==
  CASE message = "" -> "none"
    [] message = "User already exists" -> "DuplicateError"
    [] message = "A unique constraint would be violated on User"
         -> "DuplicateError"
    [] message = "No such user found" -> "NotFoundError"
    [] message = "No Node for the model found" -> "NotFoundError"
    [] message = "Invalid password" -> "InvalidCredentialsError"
    [] message = "Not authenticated" -> "UnauthenticatedError"
    [] message = "Not authorized" -> "NotAuthorizedError"
    [] OTHER -> "InternalError"

\* The context carries a token the server signed.
Authenticated(context) ==
  context.auth # None /\ context.auth[1].sig = APP_SECRET

\* The users the context's token resolves to.
ResolvedUsers(context) ==
  IF Authenticated(context)
    THEN {users[i] : i \in {j \in 1..Len(users) :
                              users[j].id = context.auth[1].userId}}
    ELSE {}

CallerIsAdmin(context) ==
  \E u \in ResolvedUsers(context) : u.name = ADMIN_USER

\* The context resolves to a user who is not the admin.
CallerIsOtherUser(context) ==
  \E u \in ResolvedUsers(context) : u.name # ADMIN_USER

ArticlesWithId(id) == {articles[i] : i \in {j \in 1..Len(articles) :
                                              articles[j].id = id}}
UsersWithEmail(email) == {users[i] : i \in {j \in 1..Len(users) :
                                              users[j].email = email}}
UsersWithName(name) == {users[i] : i \in {j \in 1..Len(users) :
                                            users[j].name = name}}

(***************************************************************************)
(* C1.  No read query invoked by a caller who is not the admin returns an  *)
(* article whose draft flag is true.  (allArticles returns drafts to every *)
(* caller, so this fails.)                                                 *)
(***************************************************************************)
C1_DraftsOnlyForAdmin ==
  (resp.op \in {"publishedArticles", "allArticles", "article"}
     /\ ~CallerIsAdmin(resp.context))
    => \A i \in 1..Len(resp.value) : ~resp.value[i].draft

(***************************************************************************)
(* C2.  Every article publishedArticles returns has draft = false, and     *)
(* when a non-empty filter is supplied its title or its summary contains   *)
(* the filter.                                                             *)
(***************************************************************************)
C2_PublishedOnly ==
  resp.op = "publishedArticles"
    => /\ resp.error = ""
       /\ \A i \in 1..Len(resp.value) :
            /\ ~resp.value[i].draft
            /\ (resp.args.filter # None /\ resp.args.filter[1] # Str_empty)
                 => \/ Contains(resp.value[i].title, resp.args.filter[1])
                    \/ Contains(resp.value[i].summary, resp.args.filter[1])

\* A filtered query returned an article while the store held a draft and a
\* published article that does not match.
C2_Witness ==
  /\ resp.op = "publishedArticles"
  /\ resp.args.filter = Some(Str_a)
  /\ Len(resp.value) = 1
  /\ Len(articles) = 2
  /\ \E i \in 1..Len(articles) :
       articles[i].draft
         \/ (~Contains(articles[i].title, Str_a)
               /\ ~Contains(articles[i].summary, Str_a))

(***************************************************************************)
(* C3 as stated.  For an existing draft article, article(id) fails with    *)
(* NotAuthorizedError for every caller who is not the admin and returns    *)
(* the article to the admin; an existing published article is returned to  *)
(* any caller without an authorization check.                              *)
(***************************************************************************)
C3_Original ==
  resp.op = "article"
    => \A a \in ArticlesWithId(resp.args.id) :
         /\ (a.draft /\ ~CallerIsAdmin(resp.context))
              => ErrorKind(resp.error) = "NotAuthorizedError"
         /\ (a.draft /\ CallerIsAdmin(resp.context))
              => resp.error = "" /\ resp.value = <<a>>
         /\ ~a.draft
              => resp.error = "" /\ resp.value = <<a>> /\ ~resp.guard

(***************************************************************************)
(* C3 as amended.  For an existing draft article, article(id) fails with   *)
(* NotAuthorizedError for an authenticated caller who is not the admin,    *)
(* with UnauthenticatedError for a caller with no or an invalid token, and *)
(* returns the article to the admin; an existing published article is      *)
(* returned to any caller without an authorization check.                  *)
(***************************************************************************)
C3_DraftLookup ==
  resp.op = "article"
    => \A a \in ArticlesWithId(resp.args.id) :
         /\ (a.draft /\ CallerIsOtherUser(resp.context))
              => (ErrorKind(resp.error) = "NotAuthorizedError"
                    /\ resp.value = <<>>)
         /\ (a.draft /\ ~Authenticated(resp.context))
              => (ErrorKind(resp.error) = "UnauthenticatedError"
                    /\ resp.value = <<>>)
         /\ (a.draft /\ CallerIsAdmin(resp.context))
              => resp.error = "" /\ resp.value = <<a>>
         /\ ~a.draft
              => resp.error = "" /\ resp.value = <<a>> /\ ~resp.guard

\* A signed-up user who is not the admin asked for an existing draft.
C3_Witness ==
  /\ resp.op = "article"
  /\ CallerIsOtherUser(resp.context)
  /\ \E a \in ArticlesWithId(resp.args.id) : a.draft
  /\ resp.error = "Not authorized"

(***************************************************************************)
(* C9.  article(id) fails with NotFoundError when no article has that id,  *)
(* for every caller, without an authorization check.  (The resolver reads  *)
(* .draft of the null the store returns, so it fails with a TypeError.)    *)
(***************************************************************************)
C9_MissingArticle ==
  (resp.op = "article" /\ ArticlesWithId(resp.args.id) = {})
    => ErrorKind(resp.error) = "NotFoundError" /\ ~resp.guard

\* The parts of the postArticle / postComment contract.
C5_Rejects(c) ==
  CallerIsOtherUser(c)
    => /\ resp'.error = "Not authorized"
       /\ articles' = articles
       /\ comments' = comments

C5_CreatesArticle(c, args) ==
  CallerIsAdmin(c)
    => /\ resp'.error = ""
       /\ Len(articles') = Len(articles) + 1
       /\ SubSeq(articles', 1, Len(articles)) = articles
       /\ articles'[Len(articles')].title = args.title
       /\ articles'[Len(articles')].summary = args.summary
       /\ comments' = comments

C5_CreatesComment(c, args) ==
  /\ resp'.error = ""
  /\ Len(comments') = Len(comments) + 1
  /\ SubSeq(comments', 1, Len(comments)) = comments
  /\ \E u \in ResolvedUsers(c) : comments'[Len(comments')].user = u.id
  /\ comments'[Len(comments')].article = args.articleId
  /\ comments'[Len(comments')].content = args.content
  /\ articles' = articles

(***************************************************************************)
(* C5 as stated.  postArticle and postComment fail with "Not authorized"   *)
(* and create nothing for a caller who resolves to a user other than the   *)
(* admin; for the admin, postArticle creates exactly one article and       *)
(* postComment exactly one comment, linked to the caller and to articleId. *)
(***************************************************************************)
C5_Original ==
  [][/\ \A c \in Contexts(users), args \in ArticleInputs :
          PostArticle(c, args)
            => C5_Rejects(c) /\ C5_CreatesArticle(c, args)
     /\ \A c \in Contexts(users), args \in CommentInputs :
          PostComment(c, args)
            => /\ C5_Rejects(c)
               /\ CallerIsAdmin(c) => C5_CreatesComment(c, args)
    ]_vars

(***************************************************************************)
(* C5 as amended.  As stated, except that postComment by the admin creates *)
(* its comment when articleId is the id of an existing article; when no    *)
(* article has that id it fails with NotFoundError and creates no comment. *)
(***************************************************************************)
C5_AdminOnly ==
  [][/\ \A c \in Contexts(users), args \in ArticleInputs :
          PostArticle(c, args)
            => C5_Rejects(c) /\ C5_CreatesArticle(c, args)
     /\ \A c \in Contexts(users), args \in CommentInputs :
          PostComment(c, args)
            => /\ C5_Rejects(c)
               /\ (CallerIsAdmin(c) /\ ArticlesWithId(args.articleId) # {})
                    => C5_CreatesComment(c, args)
               /\ (CallerIsAdmin(c) /\ ArticlesWithId(args.articleId) = {})
                    => /\ ErrorKind(resp'.error) = "NotFoundError"
                       /\ comments' = comments
                       /\ articles' = articles
    ]_vars

\* The admin's comment on an existing article was created, after another
\* user's postArticle was rejected or could have been.
C5_Witness ==
  /\ resp.op = "postComment"
  /\ resp.error = ""
  /\ CallerIsAdmin(resp.context)
  /\ Len(comments) = 1
  /\ comments[1].article = resp.args.articleId
  /\ UsersWithName("bob") # {}

\* The parts of the signup contract.
C4_Duplicate(args) ==
  prisma_exists_user(users, args.name)
    => /\ resp'.op = "signup" /\ resp'.args = args
       /\ ErrorKind(resp'.error) = "DuplicateError"
       /\ resp'.value = <<>>
       /\ users' = users

C4_Created(r) ==
  /\ resp'.op = "signup" /\ resp'.error = ""
  /\ Len(users') = Len(users) + 1
  /\ SubSeq(users', 1, Len(users)) = users
  /\ users'[Len(users')].name = signupArgs[r].name
  /\ users'[Len(users')].email = signupArgs[r].email
  /\ Len(resp'.value) = 1
  /\ resp'.value[1].token = jwt_sign(users'[Len(users')].id, APP_SECRET)
  /\ resp'.value[1].user = users'[Len(users')]
  /\ \A i \in 1..Len(users) : users[i].id # users'[Len(users')].id

(***************************************************************************)
(* C4 as stated.  signup with a name already in the user store fails with  *)
(* a duplicate-user error and leaves the store unchanged, issuing no       *)
(* token; signup with a name not in the store creates exactly one user     *)
(* and returns a token embedding that user's id.  (The second half is      *)
(* taken with the name still absent when the user is created, so that a    *)
(* violation does not rest on interleaved requests.)                       *)
(***************************************************************************)
C4_Original ==
  [][/\ \A r \in Requests, args \in SignupInputs :
          SignupCheck(r, args) => C4_Duplicate(args)
     /\ \A r \in Requests :
          (SignupCreate(r) /\ ~prisma_exists_user(users, signupArgs[r].name))
            => C4_Created(r)
    ]_vars

(***************************************************************************)
(* C4 as amended.  signup with a name already in the store fails with a    *)
(* duplicate-user error, leaves the store unchanged and issues no token;   *)
(* signup with a name not in the store and an email no user has creates    *)
(* exactly one user and returns a token embedding that user's id; with a   *)
(* name not in the store and an email a user already has, the store        *)
(* rejects the create, the user store is unchanged and no token is issued. *)
(***************************************************************************)
C4_Signup ==
  [][/\ \A r \in Requests, args \in SignupInputs :
          SignupCheck(r, args) => C4_Duplicate(args)
     /\ \A r \in Requests :
          SignupCreate(r)
            => /\ UsersWithEmail(signupArgs[r].email) = {} => C4_Created(r)
               /\ UsersWithEmail(signupArgs[r].email) # {}
                    => /\ resp'.op = "signup"
                       /\ ErrorKind(resp'.error) = "DuplicateError"
                       /\ resp'.value = <<>>
                       /\ users' = users
    ]_vars

\* A second user was created, and a signup under an existing name failed.
C4_Witness ==
  /\ Len(users) = 2
  /\ resp.op = "signup"
  /\ resp.error = "User already exists"
  /\ UsersWithName(resp.args.name) # {}

(***************************************************************************)
(* C6.  login fails with NotFoundError when no user has the email, with    *)
(* InvalidCredentialsError when a user has it and the password does not    *)
(* match the stored hash, and otherwise returns the user matched by email  *)
(* with a token embedding exactly that user's id; it never modifies the    *)
(* user store.                                                             *)
(***************************************************************************)
C6_Login ==
  [][\A args \in LoginInputs :
       Login(args)
         => /\ users' = users
            /\ resp'.op = "login"
            /\ UsersWithEmail(args.email) = {}
                 => ErrorKind(resp'.error) = "NotFoundError"
                      /\ resp'.value = <<>>
            /\ \A u \in UsersWithEmail(args.email) :
                 IF u.pwHash = bcrypt_hash(args.password, BcryptRounds)
                   THEN /\ resp'.error = ""
                        /\ Len(resp'.value) = 1
                        /\ resp'.value[1].user = u
                        /\ resp'.value[1].token.userId = u.id
                        /\ getUserId(Bearer(resp'.value[1].token))
                             = [error |-> "", userId |-> u.id]
                   ELSE /\ ErrorKind(resp'.error) = "InvalidCredentialsError"
                        /\ resp'.value = <<>>
    ]_vars

\* The second of two users logged in with their password.
C6_Witness ==
  /\ resp.op = "login"
  /\ resp.error = ""
  /\ Len(users) = 2
  /\ resp.value[1].token.userId = users[2].id

(***************************************************************************)
(* C10.  No two user records have the same name, in every state reachable  *)
(* by interleaved signup requests.  (Two requests with the same name and   *)
(* different emails both pass the existence check before either creates.)  *)
(***************************************************************************)
C10_UniqueNames ==
  \A i, j \in 1..Len(users) : i # j => users[i].name # users[j].name

(***************************************************************************)
(* C7.  Logging does not affect the result: when the underlying query or   *)
(* mutation succeeds with payload P, the stream the facade returns emits   *)
(* exactly the mapped payload of P and does not error.  (postArticle's     *)
(* next callback reads result.data.postArticle of the value map already    *)
(* projected, which throws, so its subscriber gets an error.)              *)
(***************************************************************************)
C7_LoggingTransparent ==
  /\ (call.op # "none"
        /\ call.phase \in {"refetchSent", "refetchReplied", "done"}
        /\ call.outcome.error = "")
       => call.notified = <<NextOf(call.outcome.value[1])>>
  /\ \A q \in ListOps :
       watch[q].phase = "live" => view[q] = <<NextOf(JSArray(watch[q].data))>>

\* The list the subscriber of q was last notified of reflects the call.
C8_Reflected(q) ==
  /\ Len(view[q]) = 1
  /\ view[q][1].kind = "next"
  /\ LET ids == {view[q][1].value.items[i] :
                   i \in 1..Len(view[q][1].value.items)}
     IN IF call.op = "postArticle" THEN call.outcome.value[1].id \in ids
        ELSE call.variables.id \notin ids

(***************************************************************************)
(* C8.  A postArticle or deleteArticle that succeeded starts a refetch of  *)
(* the all-articles query and a deleteComment that succeeded a refetch of  *)
(* the all-comments query; a mutation that failed starts none; and a live  *)
(* subscriber of the refetched query is eventually notified of a list      *)
(* that reflects the mutation.                                             *)
(***************************************************************************)
C8_Refetch ==
  /\ [][ClientReceive
          => /\ (call.outcome.error = ""
                   /\ call.op \in {"postArticle", "deleteArticle"})
                  => (call'.phase = "refetchSent"
                        /\ call'.refetch = "getArticles")
             /\ (call.outcome.error = "" /\ call.op = "deleteComment")
                  => (call'.phase = "refetchSent"
                        /\ call'.refetch = "getComments")
             /\ call.outcome.error # ""
                  => (call'.phase = "done" /\ call'.refetch = "")
        ]_vars
  /\ \A q \in ListOps :
       (call.phase = "refetchSent" /\ call.refetch = q
          /\ watch[q].phase = "live")
         ~> (call.phase = "done" /\ call.refetch = q /\ C8_Reflected(q))

\* A live subscriber of getComments was notified of the list without the
\* comment a deleteComment removed.
C8_Witness ==
  /\ call.op = "deleteComment"
  /\ call.phase = "done"
  /\ call.outcome.error = ""
  /\ watch["getComments"].phase = "live"
  /\ view["getComments"] = <<NextOf(JSArray(<<>>))>>
  /\ comments = <<>>
  /\ nextId.comment = 2

====
